---- MODULE Spec2Model ----
(***************************************************************************)
(* Model of muxnet-go: the tmux scan/dedup loop (Muxnet), the websocket    *)
(* backend client (OphanimClient) and its conversation history.            *)
(* Texts are sequences of one-character strings.                           *)
(***************************************************************************)
EXTENDS Integers, Sequences, FiniteSets, TLC

\* ------------------------------------------------------------------ bounds
MaxTime == 61
MaxCues == 1
MaxHist == 3
MaxCalls == 2
MaxText == 4
MaxSignals == 3

\* --------------------------------------------------------------- constants
DedupInterval == 60

Sessions == {"s1", "s2"}
OwnName == "mux"
Keys == Sessions \cup {OwnName}
Glyphs == {"$", "@", "%", "!"}
Deltas == {30, 61}

QUOTE == "\""
BSL == "\\"
NL == "\n"
NoText == << >>
Payloads == { <<"l", "s">>, <<"p", "'">> }
CtrlC == <<"^C">>
NoResponseText == <<"N", "o", " ", "r", "e", "s", "p", "o", "n", "s", "e">>

\* a conversation exchange: [promptEcho, generatedText]
E1 == << <<"l", "s">>, <<"l", "s", " ", "-", "l">> >>
E2 == << <<"q", QUOTE>>, <<":", BSL, NL, "p", "s">> >>
Exchanges == {E1, E2}
NullTurn == << >>

Never == -1
NoEntry == << >>
StatusPrompt(p) == <<"prompt", p>>
StatusUnmarked(p) == <<"prompt", p>>
StatusSkipped(p) == <<"[Skipped]", p>>
StatusDeleted == <<"Session file deleted">>

NoErr == "none"
ReadErrs == {"CloseNormalClosure", "CloseGoingAway", "CloseAbnormalClosure", "io"}
CloseCodes == {"CloseNormalClosure", "CloseGoingAway", "CloseAbnormalClosure"}
MsgKinds == {"send_hash", "send_data", "process_starts", "process_generating",
             "process_completed", "other"}
\* payloads of the completion cue: unparsable, without output.data, with an
\* empty turn list, or with a turn list whose last turn is given
Completions ==
    { [kind |-> k, last |-> NullTurn] : k \in {"malformed", "nodata", "emptyturns"} }
    \cup { [kind |-> "data", last |-> e] : e \in Exchanges }

JoinMsg == [fn |-> 4, turns |-> << >>, rag |-> FALSE]
NoMessage == [fn |-> 0, turns |-> << >>, rag |-> FALSE]

VARIABLES
    pc,               \* position of the scan task / client call
    fatal,            \* why the process ended ("none" while it runs)
    clock,            \* time.Now() in seconds
    sessions,         \* sessions listed in the current tick
    idx,              \* index of the session being monitored
    newStatus,        \* status map under construction
    sessionStatus,    \* m.sessionStatus
    processedPrompts, \* m.processedPrompts
    cur,              \* the observation made by the latest monitorSession
    ncalls,           \* round-trips started by the scan loop so far
    paneOut,          \* keys sent to a pane by the latest step
    mu,               \* m.mu: "free" or "held"
    conn,             \* o.ModelConnection: "none", "open", "closed"
    readErr,          \* sticky read error of the connection
    sent,             \* messages written to the connection of this call
    nread,            \* messages read in the streaming loop of this call
    lastMsg,          \* kind of the message read last on the connection of this call
    nopen,            \* channels dialled and not closed by the running process
    userInput,        \* argument of PromptChatbot
    hasChatbotSession,\* argument of PromptChatbot
    modelResponse,    \* result of PromptChatbot
    SessionHistory,   \* o.SessionHistory
    RAGMode,          \* o.RAGMode
    files,            \* SaveDir: key -> file content or NoFile
    lastCall,         \* latest call of a client method made outside the scan loop
    textIn,           \* argument of a text function applied on its own
    textOut,          \* the function applied and its result
    daemonMode,       \* m.daemonMode
    sigChan,          \* sigChan: signals notified and not yet received
    handler,          \* the signal goroutine: "waiting" at its receive, or "done"
    watchedSessions,  \* m.watchedSessions
    labels,           \* sessions whose status-left label is set
    nsignals          \* signals sent to the process so far

scanVars == <<clock, sessions, idx, newStatus, sessionStatus, processedPrompts, cur,
              ncalls, paneOut, mu>>
connVars == <<conn, readErr, sent, nread, lastMsg, nopen>>
callVars == <<userInput, hasChatbotSession, modelResponse>>
storeVars == <<SessionHistory, RAGMode, files>>
textVars == <<textIn, textOut>>
sigVars == <<daemonMode, sigChan, handler, watchedSessions, labels, nsignals>>
vars == <<pc, fatal, scanVars, connVars, callVars, storeVars, lastCall, textVars, sigVars>>

NoFile == <<"ENOENT">>
EmptyStatus == [s \in Sessions |-> NoEntry]
StatusKeys(st) == {s \in Sessions : st[s] # NoEntry}
NoCur == [session |-> "", outcome |-> "none", glyph |-> "", prompt |-> NoText, time |-> 0]
NoInput == [screen |-> NoText, prompt |-> NoText]
NoPaneOut == [session |-> "", keys |-> << >>]
NoCall == [op |-> "none", key |-> "", ok |-> TRUE]
NoMsg == "none"
NoOut == [op |-> "none", line |-> NoText, ok |-> FALSE, glyph |-> "", prompt |-> NoText,
          text |-> NoText]

\* ------------------------------------------------------------ text helpers
WordChars ==
    {"a", "b", "c", "d", "e", "f", "g", "h", "i", "j", "k", "l", "m", "n", "o", "p",
     "q", "r", "s", "t", "u", "v", "w", "x", "y", "z", "N", "E", "_", "0", "1"}
SpaceChars == {" ", "\t", "\n", "\r", "\f"}

RECURSIVE Join(_, _)
Join(lines, sep) ==
    IF lines = << >> THEN << >>
    ELSE IF Len(lines) = 1 THEN lines[1]
    ELSE lines[1] \o sep \o Join(Tail(lines), sep)

DropCR(line) ==
    IF line # << >> /\ line[Len(line)] = "\r" THEN SubSeq(line, 1, Len(line) - 1) ELSE line

\* bufio.Scanner with ScanLines: lines end at "\n", a trailing "\r" is dropped,
\* an empty rest after the last "\n" is no line
RECURSIVE ScanLines(_, _)
ScanLines(text, line) ==
    IF text = << >> THEN (IF line = << >> THEN << >> ELSE <<DropCR(line)>>)
    ELSE IF Head(text) = NL THEN <<DropCR(line)>> \o ScanLines(Tail(text), << >>)
    ELSE ScanLines(Tail(text), Append(line, Head(text)))

RECURSIVE SkipSpaces(_)
SkipSpaces(line) ==
    IF line # << >> /\ Head(line) \in SpaceChars THEN SkipSpaces(Tail(line)) ELSE line

\* regexp ^\s*[\w-]+
MatchCommand(line) ==
    LET rest == SkipSpaces(line)
    IN  rest # << >> /\ Head(rest) \in WordChars \cup {"-"}

filterCommandResponse(response) ==
    LET lines == ScanLines(response, << >>)
        kept == SelectSeq(lines, MatchCommand)
    IN  Join(kept, <<NL>>)

\* strings.TrimSpace
RECURSIVE DropTrailingSpaces(_)
DropTrailingSpaces(line) ==
    IF line # << >> /\ line[Len(line)] \in SpaceChars
    THEN DropTrailingSpaces(SubSeq(line, 1, Len(line) - 1))
    ELSE line

TrimSpace(line) == DropTrailingSpaces(SkipSpaces(line))

RECURSIVE LastNonEmpty(_, _)
LastNonEmpty(lines, lastLine) ==
    IF lines = << >> THEN lastLine
    ELSE LET line == TrimSpace(Head(lines))
         IN  LastNonEmpty(Tail(lines), IF line # << >> THEN line ELSE lastLine)

getLastNonEmptyLine(content) == LastNonEmpty(ScanLines(content, << >>), << >>)

\* promptPattern .*#([$@%!])\s*(.+?)\s*\. matched by backtracking in the
\* order of preference of the regexp: the longest prefix for .*, the longest
\* run for \s*, the shortest payload for .+?
NoMatch == [ok |-> FALSE, glyph |-> "", prompt |-> NoText]

\* the character the pattern's closing \. accepts
IsAnyChar(c) == TRUE

IsPeriod(c) == c = "."

\* number of whitespace characters from position p on
RECURSIVE SpaceRun(_, _)
SpaceRun(line, p) ==
    IF p <= Len(line) /\ line[p] \in SpaceChars THEN 1 + SpaceRun(line, p + 1) ELSE 0

\* (.+?)\s*\. from position start, trying payloads of n, n + 1, ... characters;
\* the character after a whitespace run is no whitespace, so a shorter run
\* for the second \s* never helps
RECURSIVE MatchPayload(_, _, _)
MatchPayload(line, start, n) ==
    IF start + n - 1 > Len(line) THEN NoMatch
    ELSE LET e == start + n + SpaceRun(line, start + n)
         IN  IF e <= Len(line) /\ IsPeriod(line[e])
             THEN [ok |-> TRUE, glyph |-> "", prompt |-> SubSeq(line, start, start + n - 1)]
             ELSE MatchPayload(line, start, n + 1)

\* \s*(.+?)\s*\. from position p, with w whitespace characters given to the
\* first \s*, then w - 1, ... down to none
RECURSIVE MatchAfterGlyph(_, _, _)
MatchAfterGlyph(line, p, w) ==
    LET r == MatchPayload(line, p + w, 1)
    IN  IF r.ok THEN r
        ELSE IF w = 0 THEN NoMatch
        ELSE MatchAfterGlyph(line, p, w - 1)

\* the # of the match at position k, then k - 1, ... (.* takes the longest
\* prefix that lets the rest match)
RECURSIVE MatchFromHash(_, _)
MatchFromHash(line, k) ==
    IF k = 0 THEN NoMatch
    ELSE IF line[k] = "#" /\ k + 1 <= Len(line) /\ line[k + 1] \in Glyphs
         THEN LET r == MatchAfterGlyph(line, k + 2, SpaceRun(line, k + 2))
              IN  IF r.ok THEN [r EXCEPT !.glyph = line[k + 1]]
                  ELSE MatchFromHash(line, k - 1)
         ELSE MatchFromHash(line, k - 1)

FindStringSubmatch(line) == MatchFromHash(line, Len(line))

\* ------------------------------------------------------- JSON of the history
\* encoding/json string encoder for the characters of the model
EscapeChar(c) ==
    IF c = QUOTE THEN <<BSL, QUOTE>>
    ELSE IF c = BSL THEN <<BSL, BSL>>
    ELSE IF c = NL THEN <<BSL, "n">>
    ELSE <<c>>

RECURSIVE EscapeText(_)
EscapeText(t) ==
    IF t = << >> THEN << >> ELSE EscapeChar(Head(t)) \o EscapeText(Tail(t))

EncodeStringNoEscape(t) == <<QUOTE>> \o t \o <<QUOTE>>

EncodeString(t) == <<QUOTE>> \o EscapeText(t) \o <<QUOTE>>

EncodeTurn(turn) ==
    IF turn = NullTurn THEN <<"n", "u", "l", "l">>
    ELSE <<"[">> \o EncodeString(turn[1]) \o <<",">> \o EncodeString(turn[2]) \o <<"]">>

RECURSIVE EncodeTurns(_)
EncodeTurns(turns) ==
    IF turns = << >> THEN << >>
    ELSE IF Len(turns) = 1 THEN EncodeTurn(turns[1])
    ELSE EncodeTurn(turns[1]) \o <<",">> \o EncodeTurns(Tail(turns))

JsonNull == <<"n", "u", "l", "l">>
DocPrefix == <<"{", QUOTE, "o", "u", "t", "p", "u", "t", QUOTE, ":",
               "{", QUOTE, "d", "a", "t", "a", QUOTE, ":">>
DocSuffix == <<"}", "}">>

EmptyDoc == <<"{", "}">>

\* the history container: isNil is a nil *gabs.Container, object is "map" when
\* the container wraps a JSON object and "nil" when it wraps nothing, turns is
\* the array at output.data (no array when empty)
NewHistory == [isNil |-> FALSE, object |-> "map", turns |-> << >>]
NullHistory == [isNil |-> FALSE, object |-> "nil", turns |-> << >>]
NilHistory == [isNil |-> TRUE, object |-> "nil", turns |-> << >>]

ExistsOutputData(h) == ~h.isNil /\ h.turns # << >>

\* Container.String(): json.Marshal of the wrapped value
HistoryString(h) ==
    IF h.object = "nil" THEN JsonNull
    ELSE IF h.turns = << >> THEN EmptyDoc
    ELSE DocPrefix \o <<"[">> \o EncodeTurns(h.turns) \o <<"]">> \o DocSuffix

\* gabs.ParseJSON restricted to the documents of the model: null, {}, or
\* {"output":{"data":[turn,...]}} with turn = null or ["..","..]
HasAt(cs, i, lit) ==
    /\ i + Len(lit) - 1 <= Len(cs)
    /\ SubSeq(cs, i, i + Len(lit) - 1) = lit

ParseFail == [ok |-> FALSE, val |-> << >>, next |-> 0]

UnescapeChar(c) ==
    IF c = "n" THEN NL ELSE c

\* the characters of a string after its opening quote
RECURSIVE ScanString(_, _, _)
ScanString(cs, j, acc) ==
    IF j > Len(cs) THEN ParseFail
    ELSE IF cs[j] = QUOTE THEN [ok |-> TRUE, val |-> acc, next |-> j + 1]
    ELSE IF cs[j] = BSL
         THEN IF j + 1 <= Len(cs) /\ cs[j + 1] \in {QUOTE, BSL, "n"}
              THEN ScanString(cs, j + 2, Append(acc, UnescapeChar(cs[j + 1])))
              ELSE ParseFail
    ELSE IF cs[j] = NL THEN ParseFail
    ELSE ScanString(cs, j + 1, Append(acc, cs[j]))

ParseStringAt(cs, i) ==
    IF i <= Len(cs) /\ cs[i] = QUOTE THEN ScanString(cs, i + 1, << >>) ELSE ParseFail

ParseTurnAt(cs, i) ==
    IF HasAt(cs, i, JsonNull) THEN [ok |-> TRUE, val |-> NullTurn, next |-> i + 4]
    ELSE IF ~HasAt(cs, i, <<"[">>) THEN ParseFail
    ELSE LET a == ParseStringAt(cs, i + 1)
         IN  IF ~a.ok \/ ~HasAt(cs, a.next, <<",">>) THEN ParseFail
             ELSE LET b == ParseStringAt(cs, a.next + 1)
                  IN  IF ~b.ok \/ ~HasAt(cs, b.next, <<"]">>) THEN ParseFail
                      ELSE [ok |-> TRUE, val |-> <<a.val, b.val>>, next |-> b.next + 1]

\* the turns of an array after its opening bracket
RECURSIVE ParseTurnsAt(_, _, _)
ParseTurnsAt(cs, i, acc) ==
    LET t == ParseTurnAt(cs, i)
    IN  IF ~t.ok THEN ParseFail
        ELSE IF HasAt(cs, t.next, <<",">>)
             THEN ParseTurnsAt(cs, t.next + 1, Append(acc, t.val))
        ELSE IF HasAt(cs, t.next, <<"]">>)
             THEN [ok |-> TRUE, val |-> Append(acc, t.val), next |-> t.next + 1]
        ELSE ParseFail

\* the container ParseJSON returns: nil on a parse error
ParseJSON(cs) ==
    IF cs = JsonNull THEN NullHistory
    ELSE IF cs = EmptyDoc THEN NewHistory
    ELSE IF ~HasAt(cs, 1, DocPrefix \o <<"[">>) THEN NilHistory
    ELSE LET r == ParseTurnsAt(cs, Len(DocPrefix) + 2, << >>)
         IN  IF r.ok /\ SubSeq(cs, r.next, Len(cs)) = DocSuffix
             THEN [isNil |-> FALSE, object |-> "map", turns |-> r.val]
             ELSE NilHistory

\* ------------------------------------------------------ history operations
\* ArrayAppendP(value, "output.data") on a non-nil container
ArrayAppend(h, turn) ==
    [h EXCEPT !.object = "map", !.turns = Append(@, turn)]

UndoAlways(h) ==
    IF ExistsOutputData(h)
    THEN [h EXCEPT !.turns = SubSeq(@, 1, Len(@) - 1)]
    ELSE h

UndoLast(h) ==
    IF ExistsOutputData(h) /\ Len(h.turns) > 1
    THEN [h EXCEPT !.turns = SubSeq(@, 1, Len(@) - 1)]
    ELSE h

\* ------------------------------------------------------------ deduplicator
canExecuteAtBoundary(pp, sessionName, prompt, currentTime) ==
    \/ pp[sessionName][prompt] = Never
    \/ currentTime - pp[sessionName][prompt] >= DedupInterval

canExecuteAnySession(pp, sessionName, prompt, currentTime) ==
    \A s \in Sessions : pp[s][prompt] = Never \/ currentTime - pp[s][prompt] > DedupInterval

canExecutePrompt(pp, sessionName, prompt, currentTime) ==
    \/ \A q \in Payloads : pp[sessionName][q] = Never
    \/ pp[sessionName][prompt] = Never
    \/ currentTime - pp[sessionName][prompt] > DedupInterval

\* websocket.IsUnexpectedCloseError(err, expectedCodes...)
IsUnexpectedCloseError(err, expected) ==
    err \in CloseCodes /\ err \notin expected

\* --------------------------------------------------------- request message
SanitizeChars == {"\n", "\r", "'", QUOTE}

RECURSIVE SanitizeText(_)
SanitizeText(t) ==
    IF t = << >> THEN << >>
    ELSE IF Head(t) \in SanitizeChars THEN SanitizeText(Tail(t))
    ELSE <<Head(t)>> \o SanitizeText(Tail(t))

Sanitize(input) ==
    [screen |-> SanitizeText(input.screen), prompt |-> SanitizeText(input.prompt)]

constructClientMessage(input, isContinuation, h, rag) ==
    IF ~isContinuation
    THEN [fn |-> 6, turns |-> << <<Sanitize(input), NoText>> >>, rag |-> rag]
    ELSE IF ExistsOutputData(h)
         THEN [fn |-> 6, turns |-> h.turns \o << <<Sanitize(input), NoText>> >>, rag |-> rag]
         ELSE NoMessage

\* ------------------------------------------------------------------- Init
InitState(start) ==
    /\ pc = start
    /\ fatal = "none"
    /\ clock = 0
    /\ sessions = << >>
    /\ idx = 1
    /\ newStatus = EmptyStatus
    /\ sessionStatus = EmptyStatus
    /\ processedPrompts = [s \in Sessions |-> [p \in Payloads |-> Never]]
    /\ cur = NoCur
    /\ ncalls = 0
    /\ paneOut = NoPaneOut
    /\ conn = "none"
    /\ readErr = NoErr
    /\ sent = << >>
    /\ nread = 0
    /\ userInput = NoInput
    /\ hasChatbotSession = FALSE
    /\ modelResponse = NoText
    /\ SessionHistory = NewHistory
    /\ RAGMode = FALSE
    /\ files = [k \in Keys |-> EmptyDoc]
    /\ lastCall = NoCall
    /\ lastMsg = NoMsg
    /\ nopen = 0
    /\ mu = "free"
    /\ textOut = NoOut
    /\ sigChan = << >>
    /\ handler = "waiting"
    /\ watchedSessions = {}
    /\ labels = {}
    /\ nsignals = 0

Init == InitState("list") /\ textIn = NoText /\ daemonMode = TRUE

\* ------------------------------------------------------- the scan loop
ListOutcomes ==
    { [err |-> TRUE, sessions |-> << >>],
      [err |-> FALSE, sessions |-> << >>],
      [err |-> FALSE, sessions |-> <<"s1">>],
      [err |-> FALSE, sessions |-> <<"s2">>],
      [err |-> FALSE, sessions |-> <<"s1", "s2">>] }

CaptureOutcomes ==
    { [kind |-> "capture_error", glyph |-> "", prompt |-> NoText],
      [kind |-> "no_directive", glyph |-> "", prompt |-> NoText] }
    \cup { [kind |-> "directive", glyph |-> g, prompt |-> p] :
             g \in Glyphs, p \in Payloads }

\* the lines of a pane without directive markers: the pane of s1 shows a line
\* above the directive, the pane of s2 shows the directive alone
getFilteredScreenContent(sessionName) ==
    IF sessionName = "s1" THEN <<"o", "k">> ELSE NoText

\* the arguments monitorSession gives to takeOver
useRAG(glyph) == glyph = "@"

screenContent(glyph, filtered) == IF glyph = "%" THEN filtered ELSE NoText

\* takeOver: the hasChatbotSession argument of PromptChatbot(fullPrompt, false)
ContinuesWithHistory(h) == ExistsOutputData(h)

ContinuesSession(h) == FALSE

\* takeOver: m.ophanim.RAGMode = useRAG
RAGModeSticky(old, rag) == old \/ rag

SetRAGMode(old, rag) == rag

\* the status map after a failed or empty listing
ClearedStatus(old) == EmptyStatus

\* one tick starts: sessions are listed; a failed or empty listing clears the status
scanSessions ==
    /\ pc = "list"
    /\ \E res \in ListOutcomes :
         /\ sessions' = res.sessions
         /\ IF res.err \/ res.sessions = << >>
            THEN /\ sessionStatus' = ClearedStatus(sessionStatus)
                 /\ pc' = "display"
            ELSE /\ sessionStatus' = sessionStatus
                 /\ pc' = "monitor"
    /\ idx' = 1
    /\ newStatus' = EmptyStatus
    /\ UNCHANGED <<fatal, clock, processedPrompts, cur, ncalls, paneOut, mu, connVars,
                   callVars, storeVars, lastCall>>
    /\ UNCHANGED <<textVars, sigVars>>

\* the branch monitorSession takes for a matched directive
RouteDeleteDispatched(glyph, pp, sessionName, prompt, now) ==
    IF canExecutePrompt(pp, sessionName, prompt, now) THEN "dispatch" ELSE "skip"

Route(glyph, pp, sessionName, prompt, now) ==
    IF glyph = "!" THEN "delete"
    ELSE IF canExecutePrompt(pp, sessionName, prompt, now) THEN "dispatch"
    ELSE "skip"

\* os.Remove of the history file of a key: the line logged and the files left
RemoveLog(fs, key, fail) ==
    IF fail THEN "delete_error"
    ELSE IF fs[key] = NoFile THEN "not_exist" ELSE "deleted"

RemoveFile(fs, key, fail) ==
    IF fail THEN fs ELSE [fs EXCEPT ![key] = NoFile]

\* the status map after a capture that failed: the session gets no entry
CaptureErrorMarked(ns, sessionName) ==
    [ns EXCEPT ![sessionName] = <<"error">>]

CaptureErrorStatus(ns, sessionName) == ns

monitorSession ==
    /\ pc = "monitor"
    /\ idx <= Len(sessions)
    /\ paneOut' = NoPaneOut
    /\ LET s == sessions[idx] IN
       \E cap \in CaptureOutcomes :
         IF cap.kind # "directive"
         THEN /\ cur' = [session |-> s, outcome |-> cap.kind, glyph |-> "",
                         prompt |-> NoText, time |-> clock]
              /\ newStatus' = IF cap.kind = "capture_error"
                               THEN CaptureErrorStatus(newStatus, s)
                               ELSE newStatus
              /\ idx' = idx + 1
              /\ UNCHANGED <<pc, files, callVars, RAGMode, ncalls>>
         ELSE LET route == Route(cap.glyph, processedPrompts, s, cap.prompt, clock) IN
              CASE route = "delete" ->
                     \E fail \in BOOLEAN :
                       /\ cur' = [session |-> s, outcome |-> RemoveLog(files, OwnName, fail),
                                  glyph |-> cap.glyph, prompt |-> cap.prompt,
                                  time |-> clock]
                       /\ files' = RemoveFile(files, OwnName, fail)
                       /\ newStatus' = [newStatus EXCEPT ![s] = StatusDeleted]
                       /\ idx' = idx + 1
                       /\ UNCHANGED <<pc, callVars, RAGMode, ncalls>>
                [] route = "dispatch" ->
                     /\ ncalls < MaxCalls
                     /\ ncalls' = ncalls + 1
                     /\ cur' = [session |-> s, outcome |-> "dispatch", glyph |-> cap.glyph,
                                prompt |-> cap.prompt, time |-> clock]
                     /\ newStatus' = [newStatus EXCEPT ![s] = StatusPrompt(cap.prompt)]
                     /\ RAGMode' = SetRAGMode(RAGMode, useRAG(cap.glyph))
                     /\ userInput' =
                          [screen |-> screenContent(cap.glyph, getFilteredScreenContent(s)),
                           prompt |-> cap.prompt]
                     /\ hasChatbotSession' = ContinuesSession(SessionHistory)
                     /\ modelResponse' = NoText
                     /\ pc' = "dial"
                     /\ UNCHANGED <<idx, files>>
                [] OTHER ->
                     /\ cur' = [session |-> s, outcome |-> "skip", glyph |-> cap.glyph,
                                prompt |-> cap.prompt, time |-> clock]
                     /\ newStatus' = [newStatus EXCEPT ![s] = StatusSkipped(cap.prompt)]
                     /\ idx' = idx + 1
                     /\ UNCHANGED <<pc, files, callVars, RAGMode, ncalls>>
    /\ watchedSessions' = watchedSessions \cup {sessions[idx]}
    /\ labels' = labels \cup {sessions[idx]}
    /\ UNCHANGED <<fatal, clock, sessions, sessionStatus, processedPrompts, mu,
                   connVars, SessionHistory, lastCall>>
    /\ UNCHANGED <<textVars, daemonMode, sigChan, handler, nsignals>>

\* the timestamp written after takeOver returned
RecordEvicting(pp, sessionName, prompt, observed) ==
    [pp EXCEPT ![sessionName] = [p \in Payloads |-> IF p = prompt THEN observed ELSE Never]]

RecordExecution(pp, sessionName, prompt, observed) ==
    [pp EXCEPT ![sessionName][prompt] = observed]

\* PromptChatbot returned to takeOver: the filtered response goes to the pane,
\* monitorSession records the execution and returns
takeOverReturn ==
    /\ pc = "returned"
    /\ paneOut' = [session |-> cur.session,
                   keys |-> <<CtrlC, filterCommandResponse(modelResponse)>>]
    /\ processedPrompts' =
          RecordExecution(processedPrompts, cur.session, cur.prompt, cur.time)
    /\ idx' = idx + 1
    /\ pc' = "monitor"
    /\ readErr' = NoErr
    /\ userInput' = NoInput
    /\ hasChatbotSession' = FALSE
    /\ modelResponse' = NoText
    /\ UNCHANGED <<fatal, clock, sessions, newStatus, sessionStatus, cur, ncalls, mu,
                   conn, sent, nread, lastMsg, nopen, storeVars, lastCall>>
    /\ UNCHANGED <<textVars, sigVars>>

\* the status map the tick leaves
MergedStatus(old, new) ==
    [s \in Sessions |-> IF new[s] # NoEntry THEN new[s] ELSE old[s]]

RebuiltStatus(old, new) == new

scanCommit ==
    /\ pc = "monitor"
    /\ idx > Len(sessions)
    /\ sessionStatus' = RebuiltStatus(sessionStatus, newStatus)
    /\ pc' = "display"
    /\ paneOut' = NoPaneOut
    /\ cur' = NoCur
    /\ UNCHANGED <<fatal, clock, sessions, idx, newStatus, processedPrompts, ncalls,
                   mu, connVars, callVars, storeVars, lastCall>>
    /\ UNCHANGED <<textVars, sigVars>>

\* sync.Mutex
Lock(holder) == "held"

UnlockKept(holder) == holder

Unlock(holder) == "free"

\* updateDisplay: the lock is taken and the status map is read and drawn
updateDisplay ==
    /\ pc = "display"
    /\ mu = "free"
    /\ mu' = Lock(mu)
    /\ pc' = "displayed"
    /\ UNCHANGED <<fatal, clock, sessions, idx, newStatus, sessionStatus, processedPrompts,
                   cur, ncalls, paneOut, connVars, callVars, storeVars, lastCall>>
    /\ UNCHANGED <<textVars, sigVars>>

\* updateDisplay returns: the deferred Unlock runs
updateDisplayReturn ==
    /\ pc = "displayed"
    /\ mu' = Unlock(mu)
    /\ pc' = "sleep"
    /\ UNCHANGED <<fatal, clock, sessions, idx, newStatus, sessionStatus, processedPrompts,
                   cur, ncalls, paneOut, connVars, callVars, storeVars, lastCall>>
    /\ UNCHANGED <<textVars, sigVars>>

\* time.Sleep(responseDelay): the locals of the tick are gone
Sleep ==
    /\ pc = "sleep"
    /\ \E d \in Deltas :
         /\ clock + d <= MaxTime
         /\ clock' = clock + d
    /\ pc' = "list"
    /\ sessions' = << >>
    /\ idx' = 1
    /\ newStatus' = EmptyStatus
    /\ cur' = NoCur
    /\ UNCHANGED <<fatal, sessionStatus, processedPrompts, ncalls, paneOut, mu, connVars,
                   callVars, storeVars, lastCall>>
    /\ UNCHANGED <<textVars, sigVars>>

\* -------------------------------------------------- the backend round-trip
\* log.Fatal and a panic end the process; its connection is gone
Exit(why) ==
    /\ pc' = "exited"
    /\ fatal' = why
    /\ sent' = << >>
    /\ nread' = 0
    /\ lastMsg' = NoMsg
    /\ nopen' = nopen

\* ModelConnection.Close()
CloseSkipped(n) == n

Close(n) == n - 1

\* PromptChatbot returns: the deferred Close runs
Return(response) ==
    /\ pc' = "returned"
    /\ conn' = "closed"
    /\ nopen' = Close(nopen)
    /\ modelResponse' = response
    /\ sent' = << >>
    /\ nread' = 0
    /\ lastMsg' = NoMsg

\* initWSClient: the channel is opened
Dial ==
    /\ pc = "dial"
    /\ \E ok \in BOOLEAN :
         IF ok
         THEN /\ conn' = "open"
              /\ nopen' = nopen + 1
              /\ pc' = "handshake"
              /\ sent' = << >>
              /\ nread' = 0
              /\ lastMsg' = NoMsg
              /\ fatal' = fatal
         ELSE /\ conn' = "none"
              /\ Exit("fatal_connect")
    /\ readErr' = NoErr
    /\ UNCHANGED <<scanVars, callVars, storeVars, lastCall>>
    /\ UNCHANGED <<textVars, sigVars>>

\* initWSClient: the first message is read and answered by the join message
Handshake ==
    /\ pc = "handshake"
    /\ \/ \E e \in ReadErrs :
            /\ readErr' = e
            /\ pc' = "stream"
            /\ UNCHANGED <<sent, nread, fatal, lastMsg, nopen>>
       \/ \E m \in MsgKinds, wok \in BOOLEAN :
            /\ readErr' = readErr
            /\ IF m # "send_hash"
               THEN Exit("fatal_unexpected")
               ELSE IF wok
                    THEN /\ sent' = Append(sent, JoinMsg)
                         /\ lastMsg' = m
                         /\ pc' = "stream"
                         /\ UNCHANGED <<nread, fatal, nopen>>
                    ELSE Exit("fatal_write")
    /\ UNCHANGED <<scanVars, conn, callVars, storeVars, lastCall>>
    /\ UNCHANGED <<textVars, sigVars>>

\* the read errors after which PromptChatbot returns instead of ending the process
ReturnsOnReadError(err) ==
    IsUnexpectedCloseError(err, {"CloseGoingAway"})

\* the streaming loop: ReadMessage fails
StreamReadError ==
    /\ pc = "stream"
    /\ \E e \in (IF readErr # NoErr THEN {readErr} ELSE ReadErrs) :
         /\ readErr' = e
         /\ IF ReturnsOnReadError(e)
            THEN Return(modelResponse) /\ fatal' = fatal
            ELSE Exit("fatal_read") /\ UNCHANGED <<conn, modelResponse>>
    /\ UNCHANGED <<scanVars, userInput, hasChatbotSession, storeVars, lastCall>>
    /\ UNCHANGED <<textVars, sigVars>>

\* the messages answered by the request
IsSendDataOrStarts(m) == m \in {"send_data", "process_starts"}

IsSendData(m) == m = "send_data"

\* the streaming loop: a message other than the completion cue
StreamCue ==
    /\ pc = "stream"
    /\ readErr = NoErr
    /\ nread < MaxCues
    /\ \E m \in MsgKinds \ {"process_completed"}, wok \in BOOLEAN :
         LET nextMessage ==
               constructClientMessage(userInput, hasChatbotSession, SessionHistory, RAGMode)
         IN  IF IsSendData(m) /\ nextMessage # NoMessage
             THEN IF wok
                  THEN /\ sent' = Append(sent, nextMessage)
                       /\ nread' = nread + 1
                       /\ lastMsg' = m
                       /\ UNCHANGED <<pc, fatal, nopen>>
                  ELSE Exit("fatal_write")
             ELSE /\ nread' = nread + 1
                  /\ lastMsg' = m
                  /\ UNCHANGED <<pc, fatal, sent, nopen>>
    /\ UNCHANGED <<scanVars, conn, readErr, callVars, storeVars, lastCall>>
    /\ UNCHANGED <<textVars, sigVars>>

\* the streaming loop: the completion cue. ArrayAppendP on a nil container
\* either fails without effect or dereferences nil, depending on the library
StreamCompleted ==
    /\ pc = "stream"
    /\ readErr = NoErr
    /\ \E c \in Completions :
         CASE c.kind = "malformed" ->
                /\ Exit("fatal_parse")
                /\ UNCHANGED <<conn, modelResponse, SessionHistory>>
           [] c.kind = "nodata" ->
                /\ Return(NoResponseText)
                /\ UNCHANGED <<fatal, SessionHistory>>
           [] c.kind = "emptyturns" ->
                /\ Exit("panic")
                /\ SessionHistory' = IF SessionHistory.isNil THEN SessionHistory
                                     ELSE ArrayAppend(SessionHistory, NullTurn)
                /\ UNCHANGED <<conn, modelResponse>>
           [] OTHER ->
                /\ Len(SessionHistory.turns) < MaxHist
                /\ IF SessionHistory.isNil
                   THEN /\ SessionHistory' = SessionHistory
                        /\ \/ Exit("panic") /\ UNCHANGED <<conn, modelResponse>>
                           \/ Return(c.last[2]) /\ fatal' = fatal
                   ELSE /\ SessionHistory' = ArrayAppend(SessionHistory, c.last)
                        /\ Return(c.last[2])
                        /\ fatal' = fatal
    /\ UNCHANGED <<scanVars, readErr, userInput, hasChatbotSession, RAGMode, files,
                   lastCall>>
    /\ UNCHANGED <<textVars, sigVars>>

\* ------------------------------------- the client's methods called directly
\* the key the program passes to the client: its own session name
ApiKeys == {OwnName}
ApiInputs == { [screen |-> NoText, prompt |-> p] : p \in Payloads }

ApiPrompt ==
    /\ pc = "api"
    /\ \E inp \in ApiInputs, hs \in BOOLEAN :
         /\ userInput' = inp
         /\ hasChatbotSession' = hs
    /\ modelResponse' = NoText
    /\ pc' = "dial"
    /\ lastCall' = [op |-> "prompt", key |-> "", ok |-> TRUE]
    /\ UNCHANGED <<fatal, scanVars, connVars, storeVars>>
    /\ UNCHANGED <<textVars, sigVars>>

ApiReturn ==
    /\ pc = "returned"
    /\ pc' = "api"
    /\ readErr' = NoErr
    /\ userInput' = NoInput
    /\ hasChatbotSession' = FALSE
    /\ modelResponse' = NoText
    /\ UNCHANGED <<fatal, scanVars, conn, sent, nread, lastMsg, nopen, storeVars,
                   lastCall>>
    /\ UNCHANGED <<textVars, sigVars>>

UndoLastInteraction ==
    /\ pc = "api"
    /\ SessionHistory' = UndoLast(SessionHistory)
    /\ lastCall' = [op |-> "undo", key |-> "", ok |-> TRUE]
    /\ UNCHANGED <<pc, fatal, scanVars, connVars, callVars, RAGMode, files>>
    /\ UNCHANGED <<textVars, sigVars>>

\* os.WriteFile: the file cannot be opened, or is truncated and the write fails
SaveChatHistory ==
    /\ pc = "api"
    /\ \E k \in ApiKeys, res \in {"ok", "open_failed", "write_failed"} :
         /\ files' = CASE res = "ok" -> [files EXCEPT ![k] = HistoryString(SessionHistory)]
                       [] res = "open_failed" -> files
                       [] OTHER -> [files EXCEPT ![k] = << >>]
         /\ lastCall' = [op |-> "save", key |-> k, ok |-> (res = "ok")]
    /\ UNCHANGED <<pc, fatal, scanVars, connVars, callVars, SessionHistory, RAGMode>>
    /\ UNCHANGED <<textVars, sigVars>>

LoadChatHistory ==
    /\ pc = "api"
    /\ \E k \in ApiKeys, readFails \in BOOLEAN :
         IF readFails \/ files[k] = NoFile
         THEN /\ lastCall' = [op |-> "load", key |-> k, ok |-> FALSE]
              /\ UNCHANGED SessionHistory
         ELSE /\ SessionHistory' = ParseJSON(files[k])
              /\ lastCall' = [op |-> "load", key |-> k, ok |-> TRUE]
    /\ UNCHANGED <<pc, fatal, scanVars, connVars, callVars, RAGMode, files>>
    /\ UNCHANGED <<textVars, sigVars>>

DeleteSessionFile ==
    /\ pc = "api"
    /\ \E k \in ApiKeys, fail \in BOOLEAN :
         /\ files' = RemoveFile(files, k, fail)
         /\ lastCall' = [op |-> RemoveLog(files, k, fail), key |-> k, ok |-> ~fail]
    /\ UNCHANGED <<pc, fatal, scanVars, connVars, callVars, SessionHistory, RAGMode>>
    /\ UNCHANGED <<textVars, sigVars>>

\* --------------------------------------------------------- specifications
\* the program: the scan loop drives the client
Next ==
    \/ scanSessions
    \/ monitorSession
    \/ takeOverReturn
    \/ scanCommit
    \/ updateDisplay
    \/ updateDisplayReturn
    \/ Sleep
    \/ Dial
    \/ Handshake
    \/ StreamReadError
    \/ StreamCue
    \/ StreamCompleted

Spec == Init /\ [][Next]_vars

\* the program running: the scan task takes its next step whenever it has one,
\* and a backend that is being read from sends its next message or closes
SpecLive == Init /\ [][Next]_vars /\ WF_vars(Next)

\* the client alone: its methods called in any order
InitClient == InitState("api") /\ textIn = NoText /\ daemonMode = TRUE

NextClient ==
    \/ ApiPrompt
    \/ ApiReturn
    \/ UndoLastInteraction
    \/ SaveChatHistory
    \/ LoadChatHistory
    \/ DeleteSessionFile
    \/ Dial
    \/ Handshake
    \/ StreamReadError
    \/ StreamCue
    \/ StreamCompleted

SpecClient == InitClient /\ [][NextClient]_vars

\* the text functions alone, applied to a captured text or a response
TextChars == {"#", "$", "!", " ", ".", "a", "-", NL}

DirectiveLine ==
    <<".", ".", ".", " ", "#", "$", " ", "l", "i", "s", "t", " ", "f", "i", "l", "e",
      "s", " ", ".">>

TwoDirectives ==
    <<"#", "$", " ", "a", ".", " ", "#", "!", " ", "b", " ", ".">>

DirectiveThenBlanks ==
    <<"#", "@", " ", "l", "s", " ", ".", NL, " ", " ", NL>>

DirectiveThenCommand ==
    <<"#", "$", "a", ".", NL, "l", "s">>

ProseAndCommands ==
    <<"E", "x", "p", "l", "a", "n", "a", "t", "i", "o", "n", ":", " ", "d", "o", " ",
      "t", "h", "i", "s", NL, "l", "s", " ", "-", "l", "a", NL, " ", " ", "e", "c",
      "h", "o", " ", "h", "i">>

Texts ==
    UNION { [1..n -> TextChars] : n \in 0..MaxText }
    \cup {DirectiveLine, TwoDirectives, DirectiveThenBlanks, DirectiveThenCommand,
          ProseAndCommands}

InitText == InitState("text") /\ textIn \in Texts /\ daemonMode = TRUE

\* monitorSession from the captured content to the match
MatchDirective ==
    /\ pc = "text"
    /\ textOut = NoOut
    /\ LET lastLine == getLastNonEmptyLine(textIn)
           match == IF lastLine = << >> THEN NoMatch ELSE FindStringSubmatch(lastLine)
       IN  textOut' = [op |-> "match", line |-> lastLine, ok |-> match.ok,
                       glyph |-> match.glyph, prompt |-> match.prompt, text |-> NoText]
    /\ UNCHANGED <<pc, fatal, scanVars, connVars, callVars, storeVars, lastCall, textIn,
                   sigVars>>

FilterResponse ==
    /\ pc = "text"
    /\ textOut = NoOut
    /\ textOut' = [NoOut EXCEPT !.op = "filter", !.text = filterCommandResponse(textIn)]
    /\ UNCHANGED <<pc, fatal, scanVars, connVars, callVars, storeVars, lastCall, textIn,
                   sigVars>>

NextText ==
    \/ MatchDirective
    \/ FilterResponse

SpecText == InitText /\ [][NextText]_vars

\* the signal goroutine of main, next to the labels the scan task sets
Signals == {"SIGHUP", "SIGINT", "SIGTERM"}

InitSignal == InitState("running") /\ textIn = NoText /\ daemonMode \in BOOLEAN

\* monitorSession marks the session it looks at
Watch ==
    /\ pc = "running"
    /\ \E s \in Sessions :
         /\ labels' = labels \cup {s}
         /\ watchedSessions' = watchedSessions \cup {s}
    /\ UNCHANGED <<pc, fatal, scanVars, connVars, callVars, storeVars, lastCall, textVars,
                   daemonMode, sigChan, handler, nsignals>>

\* a signal arrives: signal.Notify puts it into sigChan unless the channel is full
Notify ==
    /\ pc = "running"
    /\ nsignals < MaxSignals
    /\ nsignals' = nsignals + 1
    /\ \E sig \in Signals :
         sigChan' = IF Len(sigChan) < 1 THEN Append(sigChan, sig) ELSE sigChan
    /\ UNCHANGED <<pc, fatal, scanVars, connVars, callVars, storeVars, lastCall, textVars,
                   daemonMode, handler, watchedSessions, labels>>

\* m.cleanup(): the label of every watched session is cleared
cleanup(ls, watched) == ls \ watched

\* the goroutine receives one signal and either ignores it or shuts down
HandleSignal ==
    /\ pc = "running"
    /\ handler = "waiting"
    /\ sigChan # << >>
    /\ sigChan' = Tail(sigChan)
    /\ handler' = "done"
    /\ IF Head(sigChan) = "SIGHUP" /\ daemonMode
       THEN UNCHANGED <<pc, fatal, labels>>
       ELSE /\ labels' = cleanup(labels, watchedSessions)
            /\ pc' = "exited"
            /\ fatal' = "shutdown"
    /\ UNCHANGED <<scanVars, connVars, callVars, storeVars, lastCall, textVars,
                   daemonMode, watchedSessions, nsignals>>

NextSignal ==
    \/ Watch
    \/ Notify
    \/ HandleSignal

\* the goroutine runs whenever it has a signal to receive
SpecSignal == InitSignal /\ [][NextSignal]_vars /\ WF_vars(HandleSignal)

\* ------------------------------------------------------------------ claims
\* C1: when monitorSession decides between dispatching and skipping a matched
\* directive, it dispatches exactly when no execution is recorded for that
\* (session, payload) pair or the recorded one is more than 60 s old.
C1_DedupDecision ==
    [][ (pc = "monitor" /\ idx <= Len(sessions) /\ cur'.outcome \in {"dispatch", "skip"})
        => LET last == processedPrompts[sessions[idx]][cur'.prompt]
           IN  (cur'.outcome = "dispatch")
                 <=> (last = Never \/ clock - last > DedupInterval) ]_vars

\* the same payload of the same session is accepted again 61 s after its execution
C1_Witness ==
    /\ pc = "dial"
    /\ cur.outcome = "dispatch"
    /\ processedPrompts[cur.session][cur.prompt] # Never
    /\ cur.time - processedPrompts[cur.session][cur.prompt] = 61

\* C2: when the round-trip of an accepted directive failed (the channel's read
\* failed before a completion cue), no execution time is written.
C2_RecordedOnlyAfterSuccess ==
    [][ (pc = "returned" /\ readErr # NoErr)
        => processedPrompts' = processedPrompts ]_vars

\* C3: after a tick the status map has entries only for sessions listed in
\* that tick (none when the listing failed or was empty).
C3_StatusOnlyListed ==
    pc \in {"display", "sleep"}
      => StatusKeys(sessionStatus) \subseteq {sessions[i] : i \in 1..Len(sessions)}

\* a session executed in an earlier tick is not listed now and has no entry
C3_Witness ==
    /\ pc = "display"
    /\ sessions = <<"s2">>
    /\ sessionStatus["s2"] # NoEntry
    /\ sessionStatus["s1"] = NoEntry
    /\ \E p \in Payloads : processedPrompts["s1"][p] # Never

\* C4: a matched deletion directive opens no channel, sends no message and
\* starts no round-trip; a removal is attempted, and with the file absent the
\* tick goes on to the next session with the files as they were.
C4_DeletionNeverDispatches ==
    [][ (pc = "monitor" /\ idx <= Len(sessions) /\ cur'.glyph = "!")
        => /\ conn' = conn
           /\ sent' = sent
           /\ ncalls' = ncalls
           /\ cur'.outcome \in {"deleted", "not_exist", "delete_error"}
           /\ newStatus'[sessions[idx]] = StatusDeleted
           /\ pc' = "monitor"
           /\ idx' = idx + 1
           /\ fatal' = fatal
           /\ (cur'.outcome = "not_exist" => files' = files) ]_vars

\* a deletion directive met an absent file and the tick went on
C4_Witness ==
    /\ pc = "monitor"
    /\ cur.glyph = "!"
    /\ cur.outcome = "not_exist"
    /\ newStatus[cur.session] = StatusDeleted
    /\ files[OwnName] = NoFile

\* C5: when the channel cannot be opened the process keeps running.
C5_DialFailureSurvives ==
    [][ (pc = "dial" /\ conn' # "open") => pc' # "exited" ]_vars

\* C6: no protocol error (unexpected first message, write failure, malformed
\* completion payload) terminates the process.
C6_ProtocolErrorSurvives ==
    fatal \notin {"fatal_unexpected", "fatal_write", "fatal_parse"}

\* C7: a step that handles a completion cue appends exactly one exchange to the
\* history and returns its generated text; every other step of a round-trip
\* leaves the history alone and returns no generated text.
C7_CompletionAppendsAndReturns ==
    [][ LET old == SessionHistory.turns
            new == SessionHistory'.turns
            completion == /\ pc = "stream"
                          /\ readErr = NoErr
                          /\ readErr' = NoErr
                          /\ pc' # "stream"
                          /\ fatal' # "fatal_write"
        IN  /\ completion
               => /\ pc' = "returned"
                  /\ Len(new) = Len(old) + 1
                  /\ SubSeq(new, 1, Len(old)) = old
                  /\ new[Len(new)] # NullTurn
                  /\ modelResponse' = new[Len(new)][2]
            /\ (pc \in {"dial", "handshake", "stream"} /\ ~completion)
               => /\ SessionHistory' = SessionHistory
                  /\ (pc' = "returned" => modelResponse' = NoText) ]_vars

\* C8: a normal or expected close of the channel during streaming makes the
\* round-trip return the partial result it holds.
C8_ExpectedCloseReturnsPartial ==
    [][ (pc = "stream" /\ pc' # "stream"
           /\ readErr' \in {"CloseNormalClosure", "CloseGoingAway"})
        => (pc' = "returned" /\ modelResponse' = modelResponse) ]_vars

\* C9: UndoLastInteraction removes exactly the last exchange of a history of
\* more than one and changes nothing otherwise; no round-trip step and no undo
\* empties a history that holds an exchange.
C9_UndoLast ==
    [][ LET old == SessionHistory.turns
        IN  /\ (pc = "api" /\ lastCall'.op = "undo")
               => SessionHistory' =
                     IF Len(old) > 1
                     THEN [SessionHistory EXCEPT !.turns = SubSeq(old, 1, Len(old) - 1)]
                     ELSE SessionHistory
            /\ (lastCall'.op # "load" /\ old # << >>)
               => SessionHistory'.turns # << >> ]_vars

\* an undo took a history of three exchanges to its first two
C9_Witness ==
    /\ lastCall.op = "undo"
    /\ SessionHistory.turns = <<E1, E2>>

\* C10: a load of the key just saved leaves the exchanges that were saved, in
\* their order, in a usable history.
C10_SaveLoadRoundTrip ==
    [][ (/\ pc = "api"
         /\ lastCall.op = "save"
         /\ lastCall.ok
         /\ lastCall'.op = "load"
         /\ lastCall'.key = lastCall.key)
        => /\ SessionHistory'.turns = SessionHistory.turns
           /\ (lastCall'.ok => ~SessionHistory'.isNil) ]_vars

\* a history with quotes, a backslash and a line break was loaded from its file
C10_Witness ==
    /\ lastCall.op = "load"
    /\ lastCall.ok
    /\ SessionHistory.turns = <<E1, E2>>
    /\ files[lastCall.key] = HistoryString(SessionHistory)

\* C11: a load that fails (the file cannot be read, or its content does not
\* parse) leaves an empty history that later operations can use.
C11_LoadFailureEmpties ==
    [][ (/\ pc = "api"
         /\ lastCall'.op = "load"
         /\ (~lastCall'.ok \/ ParseJSON(files[lastCall'.key]).isNil))
        => /\ SessionHistory'.turns = << >>
           /\ ~SessionHistory'.isNil ]_vars

\* C12: in continuation mode a ready-for-payload cue is answered, when the
\* history holds an exchange, by a request whose turns are the prior turns in
\* order followed by the sanitized prompt; when it holds none the round-trip
\* does not go on listening.
C12_ContinuationRequest ==
    [][ (/\ pc = "stream"
         /\ hasChatbotSession
         /\ lastMsg' = "send_data"
         /\ nread' = nread + 1)
        => IF ExistsOutputData(SessionHistory)
           THEN sent' = Append(sent,
                    [fn |-> 6,
                     turns |-> SessionHistory.turns \o << <<Sanitize(userInput), NoText>> >>,
                     rag |-> RAGMode])
           ELSE pc' # "stream" ]_vars

\* C13: a failed pane capture gives the session no status entry and starts no
\* round-trip and no pane write; the entries of the other sessions stay, the
\* process lives and the tick goes on with the next listed session.
C13_CaptureFailureIsPerSession ==
    [][ (pc = "monitor" /\ idx <= Len(sessions) /\ cur'.outcome = "capture_error")
        => /\ newStatus'[sessions[idx]] = NoEntry
           /\ \A t \in Sessions \ {sessions[idx]} : newStatus'[t] = newStatus[t]
           /\ pc' = "monitor"
           /\ idx' = idx + 1
           /\ fatal' = fatal
           /\ ncalls' = ncalls
           /\ nopen' = nopen
           /\ sent' = sent
           /\ paneOut' = NoPaneOut
           /\ processedPrompts' = processedPrompts ]_vars

\* the capture of the first of two listed sessions failed; the second is next
C13_Witness ==
    /\ pc = "monitor"
    /\ cur.outcome = "capture_error"
    /\ cur.session = "s1"
    /\ sessions = <<"s1", "s2">>
    /\ idx = 2
    /\ newStatus["s1"] = NoEntry
    /\ fatal = "none"

\* C14: when the deduplicator rejects a directive that is not a deletion, the
\* status entry of the session becomes the skipped marker followed by the
\* payload, no backend round-trip starts and nothing is written to the pane.
C14_SkipMarksAndDoesNothingElse ==
    [][ (pc = "monitor" /\ idx <= Len(sessions) /\ cur'.outcome = "skip")
        => /\ cur'.glyph \in {"$", "@", "%"}
           /\ newStatus'[sessions[idx]] = <<"[Skipped]", cur'.prompt>>
           /\ ncalls' = ncalls
           /\ conn' = conn
           /\ nopen' = nopen
           /\ sent' = sent
           /\ paneOut' = NoPaneOut
           /\ processedPrompts' = processedPrompts
           /\ pc' = "monitor" ]_vars

\* a directive seen again inside the interval was skipped and marked
C14_Witness ==
    /\ pc = "monitor"
    /\ cur.outcome = "skip"
    /\ cur.prompt = <<"l", "s">>
    /\ processedPrompts[cur.session][cur.prompt] # Never
    /\ newStatus[cur.session] = <<"[Skipped]", <<"l", "s">> >>
    /\ paneOut = NoPaneOut

C16_FilterDropsProse ==
    textOut.op = "filter" =>
        LET lines == ScanLines(textIn, << >>)
            Blank(c) == c \in {" ", "\t", "\n", "\r", "\f"}
            Token(l) == \E k \in 1..Len(l) :
                          /\ l[k] \in WordChars \cup {"-"}
                          /\ \A b \in 1..(k - 1) : Blank(l[b])
        IN  /\ textOut.text = Join(SelectSeq(lines, Token), <<"\n">>)
            /\ textIn = ProseAndCommands =>
                 textOut.text = <<"l", "s", " ", "-", "l", "a", "\n",
                                  " ", " ", "e", "c", "h", "o", " ", "h", "i">>

\* C17 as stated: every access to the status map holds the mutex, the
\* replacement by the scan task included.
C17_EveryAccessHoldsLock ==
    [][ /\ (pc = "displayed" => mu = "held")
        /\ (sessionStatus' # sessionStatus => mu = "held") ]_vars

\* C17: the display reads the status map while it holds the mutex, and the
\* scan task replaces the map only while the mutex is free and no display is
\* reading, so no read of the map interleaves with its replacement.
C17_ReadsLockedNeverInterleaved ==
    /\ [](mu = "held" <=> pc = "displayed")
    /\ [][ sessionStatus' # sessionStatus
           => /\ mu = "free"
              /\ mu' = "free"
              /\ pc # "displayed"
              /\ pc' # "displayed" ]_vars

\* the display holds the lock and reads a map with an entry
C17_Witness ==
    /\ pc = "displayed"
    /\ mu = "held"
    /\ sessionStatus # EmptyStatus

\* C18: in a round-trip the join message (fn 4) is written only on receipt of
\* the handshake cue and as the first message; a submission (fn 6) is written
\* only on receipt of a ready-for-payload cue and after the join message; a
\* progress cue or any other message causes no write.
C18_SendsFollowCues ==
    [][ /\ (sent' # sent /\ sent' # << >>)
           => \/ /\ pc = "handshake"
                 /\ lastMsg' = "send_hash"
                 /\ sent = << >>
                 /\ sent' = << [fn |-> 4, turns |-> << >>, rag |-> FALSE] >>
              \/ /\ pc = "stream"
                 /\ lastMsg' = "send_data"
                 /\ nread' = nread + 1
                 /\ Len(sent) >= 1
                 /\ sent[1].fn = 4
                 /\ Len(sent') = Len(sent) + 1
                 /\ SubSeq(sent', 1, Len(sent)) = sent
                 /\ sent'[Len(sent')].fn = 6
        /\ (/\ pc = "stream"
            /\ pc' = "stream"
            /\ nread' = nread + 1
            /\ lastMsg' \in {"send_hash", "process_starts", "process_generating", "other"})
           => sent' = sent ]_vars

\* the join message and then one submission were written, the submission on
\* the ready-for-payload cue
C18_Witness ==
    /\ pc = "stream"
    /\ lastMsg = "send_data"
    /\ Len(sent) = 2
    /\ sent[1].fn = 4
    /\ sent[2].fn = 6

\* C19: a round-trip is in its streaming loop only after it has read the
\* handshake cue and written the join message; a failed handshake read ends
\* the round-trip instead.
C19_NoStreamingWithoutJoin ==
    pc = "stream" =>
        /\ Len(sent) >= 1
        /\ sent[1] = [fn |-> 4, turns |-> << >>, rag |-> FALSE]
        /\ lastMsg # "none"

\* C20: a channel is opened and closed inside one round-trip call: at most
\* one channel is open at any time, and outside a running round-trip (the call
\* returned, or none was started) no channel is open.
C20_ChannelClosedOnReturn ==
    /\ nopen \in {0, 1}
    /\ (pc \notin {"handshake", "stream", "exited"} => nopen = 0 /\ conn # "open")
    /\ (pc \in {"handshake", "stream"} => nopen = 1 /\ conn = "open")

\* the second round-trip of the run returned and left no channel open
C20_Witness ==
    /\ pc = "returned"
    /\ ncalls = 2
    /\ conn = "closed"
    /\ nopen = 0

\* C21: every submission written for a scanned directive carries the
\* retrieval-augmentation flag exactly when the directive's glyph is `@`, and
\* the filtered screen content of the pane exactly when the glyph is `%`
\* (nothing otherwise), whatever the flag of an earlier directive was.
C21_RoutingByGlyph ==
    [][ (/\ pc = "stream"
         /\ cur.outcome = "dispatch"
         /\ Len(sent') = Len(sent) + 1
         /\ sent'[Len(sent')].fn = 6)
        => LET m == sent'[Len(sent')]
               turn == m.turns[Len(m.turns)]
           IN  /\ cur.glyph \in {"$", "@", "%"}
               /\ m.rag = (cur.glyph = "@")
               /\ turn[1].prompt = SanitizeText(cur.prompt)
               /\ turn[1].screen = IF cur.glyph = "%" /\ cur.session = "s1"
                                   THEN <<"o", "k">>
                                   ELSE << >> ]_vars

\* the second round-trip of the run is for a `%` directive: its submission
\* carries the screen content and no retrieval flag
C21_Witness ==
    /\ pc = "stream"
    /\ ncalls = 2
    /\ cur.glyph = "%"
    /\ cur.session = "s1"
    /\ Len(sent) = 2
    /\ sent[2].rag = FALSE
    /\ sent[2].turns[1][1].screen = <<"o", "k">>

\* C22: a deletion directive observed in session S removes the history file
\* kept under the key S and leaves the files of all other keys as they are.
C22_DeletionRemovesOwnFile ==
    [][ (/\ pc = "monitor"
         /\ idx <= Len(sessions)
         /\ cur'.outcome \in {"deleted", "not_exist"})
        => /\ files'[sessions[idx]] = NoFile
           /\ \A k \in Keys \ {sessions[idx]} : files'[k] = files[k] ]_vars

\* C23: a round-trip that has reached its streaming loop ends in a return to
\* the dispatcher, and the scan goes on with the next session, whenever the
\* backend sends a completion cue or closes the channel; a round-trip whose
\* write failed, whose read failed without a close, or whose completion cue
\* was not parsable is not covered.
C23_RoundTripReturns ==
    (pc = "stream")
      ~> \/ pc = "monitor" /\ cur.outcome = "dispatch"
         \/ pc = "exited" /\ fatal \in {"fatal_write", "fatal_parse"}
         \/ pc = "exited" /\ readErr = "io"

\* C24: a skipped observation leaves the processed-directive records as they
\* are; the timestamp of a (session, payload) pair changes only when the
\* round-trip of that accepted directive has returned, to the time of that
\* observation, which is later than the old one, and no entry is ever removed;
\* a directive is dispatched only when its pair has no timestamp or one more
\* than 60 s old, and is not skipped then.
C24_RecordsOnlySuperseded ==
    [][ /\ (pc = "monitor" /\ cur'.outcome = "skip")
           => processedPrompts' = processedPrompts
        /\ \A s \in Sessions, p \in Payloads :
             processedPrompts'[s][p] # processedPrompts[s][p]
             => /\ pc = "returned"
                /\ cur.outcome = "dispatch"
                /\ cur.session = s
                /\ cur.prompt = p
                /\ processedPrompts'[s][p] = cur.time
                /\ processedPrompts'[s][p] > processedPrompts[s][p]
                /\ processedPrompts'[s][p] >= 0
        /\ (pc = "monitor" /\ cur'.outcome = "dispatch")
           => \/ processedPrompts[cur'.session][cur'.prompt] = -1
              \/ clock - processedPrompts[cur'.session][cur'.prompt] > 60
        /\ (pc = "monitor" /\ cur'.outcome = "skip")
           => /\ processedPrompts[cur'.session][cur'.prompt] # -1
              /\ clock - processedPrompts[cur'.session][cur'.prompt] <= 60 ]_vars

\* the directive of s1 was dispatched in two round-trips and no other one was:
\* its timestamp of the first tick was superseded by the one of the tick at 61 s
C24_Witness ==
    /\ clock = 61
    /\ pc = "monitor"
    /\ ncalls = 2
    /\ processedPrompts["s1"][<<"l", "s">>] = 61
    /\ processedPrompts["s1"][<<"p", "'">>] = -1
    /\ \A p \in Payloads : processedPrompts["s2"][p] = -1

\* C25: in daemon mode a SIGINT or SIGTERM that was sent to the running
\* process leads to the shutdown path: the labels of the watched sessions are
\* cleared and the process exits, however many SIGHUP were ignored before.
C25_ShutdownStaysPossible ==
    (/\ daemonMode
     /\ pc = "running"
     /\ sigChan # << >>
     /\ Head(sigChan) \in {"SIGINT", "SIGTERM"})
      ~> (pc = "exited" /\ labels = {})

\* C26: whether a directive that is not a deletion is skipped depends only on
\* the timestamp recorded for its (session, payload) pair, not on its glyph,
\* on the records of other sessions or on those of other payloads: it is
\* skipped exactly when that pair has a timestamp at most 60 s old, whichever
\* of the glyphs $, @, % it carries now.
C26_KeyIsSessionAndPayload ==
    [][ (pc = "monitor" /\ cur'.outcome \in {"skip", "dispatch"})
        => LET t == processedPrompts[cur'.session][cur'.prompt]
           IN  /\ cur'.glyph \in {"$", "@", "%"}
               /\ cur'.outcome = "skip" <=> (t # -1 /\ clock - t <= 60) ]_vars

\* the only directive executed so far carried `@`; the same payload, seen again
\* in that session with `$`, was skipped
C26_Witness ==
    /\ pc = "monitor"
    /\ ncalls = 1
    /\ RAGMode
    /\ cur.outcome = "skip"
    /\ cur.glyph = "$"
    /\ processedPrompts[cur.session][cur.prompt] # -1

\* C27: every submission written for a scanned directive has a turn list of
\* exactly one turn, the sanitized prompt of that directive with an empty
\* reply, however many exchanges the client's history holds.
C27_ScannedSubmissionHasOneTurn ==
    [][ (/\ pc = "stream"
         /\ cur.outcome = "dispatch"
         /\ Len(sent') = Len(sent) + 1
         /\ sent'[Len(sent')].fn = 6)
        => LET m == sent'[Len(sent')]
           IN  /\ ~hasChatbotSession
               /\ Len(m.turns) = 1
               /\ m.turns[1][1].prompt = SanitizeText(cur.prompt)
               /\ m.turns[1][2] = << >> ]_vars

\* the second round-trip of the run: the history holds the exchange of the
\* first one, the submission holds one turn
C27_Witness ==
    /\ pc = "stream"
    /\ ncalls = 2
    /\ Len(SessionHistory.turns) = 1
    /\ Len(sent) = 2
    /\ sent[2].fn = 6
    /\ Len(sent[2].turns) = 1
====
